---- MODULE Spec2Model ----
(***************************************************************************)
(* Laser Sensor Monitor: the dashboard's control panel and metrics display *)
(* (app/components/*.vue) and the monitoring pipeline the project          *)
(* documentation gives as code (docs/PROJECT.md: the useSensorMonitor      *)
(* composable, the Pinia sensor store, the Tauri commands).                *)
(***************************************************************************)
EXTENDS Integers, Sequences, FiniteSets, TLC

\* ------------------------------------------------------------------ bounds

\* In-flight invoke() promises the model keeps at once.
MaxCalls == 1

\* 'sensor-data' events the Tauri event system holds undelivered at once.
MaxInFlight == 2

\* Times setupEventListener is called.
MaxListeners == 2

\* Readings the backend loop generates in one run of the model.
MaxGenerated == 102

\* Math.random() is a multiple of 1/RandomSteps in [0, 1); the model draws the
\* least, the middle and the greatest of them.
RandomSteps == 100

\* Ticks of the display's interval timer in one run of the model.
MaxNow == 2

\* Longest sequence of readings a statistics request is given.
MaxStatsLen == 4

\* ------------------------------------------------------- program constants

\* stores/sensor.ts: if (readings.value.length > 100) readings.value.shift()
Capacity == 100

VARIABLES
    isMonitoring,    \* ControlPanel.vue: const isMonitoring = ref(false)
    hasData,         \* ControlPanel.vue: const hasData = ref(false)
    stoppedAt,       \* history: the display's clock when stopMonitoring last ran
    startInvoked,    \* history: startMonitoring has run at least once
    calls,           \* invoke() promises not yet settled and resumed
    sensorStore,     \* stores/sensor.ts: [readings, isMonitoring]
    listeners,       \* number of registered 'sensor-data' listeners
    loopRunning,     \* backend: the sensor simulation loop is running
    generated,       \* backend: readings generated so far (the last timestamp)
    channel,         \* 'sensor-data' events emitted and not yet delivered
    pushed,          \* history: every reading given to addReading, in order
    lifecycle,       \* MetricsDisplay.vue instance: "setup", "mounted", "unmounted"
    updateInterval,  \* MetricsDisplay.vue: let updateInterval: number (0: not set)
    activeTimers,    \* interval timers set and not cleared
    metrics,         \* MetricsDisplay.vue: const metrics = ref<SensorMetrics>(...)
    now,             \* the wall clock the display reads, in ticks of its timer
    statsInput,      \* the accumulated readings a statistics request runs over
    statistics       \* the statistics returned so far, in order

panelVars == <<isMonitoring, hasData, stoppedAt, startInvoked>>
pipeVars == <<sensorStore, listeners, loopRunning, generated, channel, pushed>>
displayVars == <<lifecycle, updateInterval, activeTimers, metrics, now>>
statsVars == <<statsInput, statistics>>
vars == <<isMonitoring, hasData, stoppedAt, startInvoked, calls, sensorStore, listeners,
          loopRunning, generated, channel, pushed, lifecycle, updateInterval,
          activeTimers, metrics, now, statsInput, statistics>>

\* ------------------------------------------------------------ sensor store

\* addReading without its shift.
addReading_noShift(readings, reading) == Append(readings, reading)

\* addReading with pop() where the code has shift().
addReading_pop(readings, reading) ==
    LET appended == Append(readings, reading)
    IN  IF Len(appended) > Capacity THEN SubSeq(appended, 1, Capacity) ELSE appended

\* addReading with unshift() where the code has push().
addReading_unshift(readings, reading) ==
    LET prepended == <<reading>> \o readings
    IN  IF Len(prepended) > Capacity THEN Tail(prepended) ELSE prepended

\* function addReading(reading): push, then shift when longer than 100.
addReading(readings, reading) ==
    LET appended == Append(readings, reading)
    IN  IF Len(appended) > Capacity THEN Tail(appended) ELSE appended

\* setMonitoring that drops the history when monitoring is switched off.
setMonitoring_clears(store, status) ==
    [readings |-> IF status THEN store.readings ELSE <<>>, isMonitoring |-> status]

\* function setMonitoring(status)
setMonitoring(store, status) == [store EXCEPT !.isMonitoring = status]

\* const latestReading = computed(() => readings.value[readings.value.length - 1])
\* (an index out of range reads undefined)
Undefined == [undefined |-> TRUE]

\* latestReading with index 0 where the code has length - 1.
latestReading_first(readings) ==
    IF Len(readings) = 0 THEN Undefined ELSE readings[1]

latestReading(readings) ==
    IF Len(readings) = 0 THEN Undefined ELSE readings[Len(readings)]

\* const readingCount = computed(() => readings.value.length)
readingCount(readings) == Len(readings)

\* The listener of setupEventListener runs once per registration on an event.
RECURSIVE deliver(_, _, _)
deliver(readings, reading, n) ==
    IF n = 0 THEN readings
    ELSE deliver(addReading(readings, reading), reading, n - 1)

RECURSIVE repeat(_, _)
repeat(x, n) == IF n = 0 THEN <<>> ELSE <<x>> \o repeat(x, n - 1)

\* ---------------------------------------------------------- Tauri commands

\* await invoke(cmd): the command is sent and the caller suspends on its promise.
invoke(cmd) == Append(calls, [cmd |-> cmd, phase |-> "pending"])

RemoveAt(s, i) == SubSeq(s, 1, i - 1) \o SubSeq(s, i + 1, Len(s))

\* Command start_monitoring: initiates the sensor simulation loop.
start_monitoring == TRUE

\* Command stop_monitoring: stops the simulation loop.
stop_monitoring == FALSE

\* The backend runs a command and settles its promise: Result<_, String> is Ok
\* (the command took effect) or Err (it did not).
handleCommand(i) ==
    /\ i \in 1..Len(calls)
    /\ calls[i].phase = "pending"
    /\ \E ok \in BOOLEAN :
        /\ calls' = [calls EXCEPT ![i].phase = IF ok THEN "ok" ELSE "err"]
        /\ loopRunning' =
              IF ~ok THEN loopRunning
              ELSE IF calls[i].cmd = "start_monitoring" THEN start_monitoring
              ELSE IF calls[i].cmd = "stop_monitoring" THEN stop_monitoring
              ELSE loopRunning
    /\ UNCHANGED <<statsVars, panelVars, sensorStore, listeners, generated, channel, pushed,
                   displayVars>>

\* The loop with its new event put before the undelivered ones.
sensorLoop_front ==
    /\ loopRunning
    /\ generated < MaxGenerated
    /\ Len(channel) < MaxInFlight
    /\ generated' = generated + 1
    /\ channel' = <<[timestamp |-> generated + 1]>> \o channel
    /\ UNCHANGED <<statsVars, panelVars, calls, sensorStore, listeners, loopRunning, pushed,
                   displayVars>>

\* The loop generates one reading and emits it as a 'sensor-data' event.
sensorLoop ==
    /\ loopRunning
    /\ generated < MaxGenerated
    /\ Len(channel) < MaxInFlight
    /\ generated' = generated + 1
    /\ channel' = Append(channel, [timestamp |-> generated + 1])
    /\ UNCHANGED <<statsVars, panelVars, calls, sensorStore, listeners, loopRunning, pushed,
                   displayVars>>

\* ------------------------------------------------------- useSensorMonitor

\* startMonitoring, after its await: sensorStore.setMonitoring(true).
\* stopMonitoring, after its await: sensorStore.setMonitoring(false).
\* A rejected invoke throws out of the function before setMonitoring.
\* The same with the rejection caught and ignored: setMonitoring runs anyway.
afterInvoke_swallow(store, call) ==
    IF call.cmd = "start_monitoring" THEN setMonitoring(store, TRUE)
    ELSE IF call.cmd = "stop_monitoring" THEN setMonitoring(store, FALSE)
    ELSE store

afterInvoke(store, call) ==
    IF call.phase # "ok" THEN store
    ELSE IF call.cmd = "start_monitoring" THEN setMonitoring(store, TRUE)
    ELSE IF call.cmd = "stop_monitoring" THEN setMonitoring(store, FALSE)
    ELSE store

resumeCall(i) ==
    /\ i \in 1..Len(calls)
    /\ calls[i].phase # "pending"
    /\ sensorStore' = afterInvoke(sensorStore, calls[i])
    /\ calls' = RemoveAt(calls, i)
    /\ UNCHANGED <<statsVars, panelVars, listeners, loopRunning, generated, channel, pushed,
                   displayVars>>

\* setupEventListener: await listen('sensor-data', (event) => addReading(event.payload))
\* The model has the page register its listeners before the loop's first reading.
setupEventListener ==
    /\ listeners < MaxListeners
    /\ generated = 0
    /\ listeners' = listeners + 1
    /\ UNCHANGED <<statsVars, panelVars, calls, sensorStore, loopRunning, generated, channel,
                   pushed, displayVars>>

\* A 'sensor-data' event reaches the frontend: every registered listener runs.
onSensorData ==
    /\ channel # <<>>
    /\ sensorStore' = [sensorStore EXCEPT
                          !.readings = deliver(@, Head(channel), listeners)]
    /\ pushed' = pushed \o repeat(Head(channel), listeners)
    /\ channel' = Tail(channel)
    /\ UNCHANGED <<statsVars, panelVars, calls, listeners, loopRunning, generated, displayVars>>

\* ------------------------------------------------------------ ControlPanel

\* <button :disable="flag">: the bound attribute is "disable", which is not the
\* button's "disabled" attribute, so the button is clickable whatever the flag.
ButtonDisabled(flag) == FALSE

\* emit(signal) runs the page's handler for the signal synchronously. The page
\* uses the composable for the Tauri logic: 'start' calls its startMonitoring
\* and 'stop' its stopMonitoring, each of which begins with its invoke;
\* 'show-stats' asks the backend for the statistics.
emit(signal) ==
    IF signal = "start" THEN invoke("start_monitoring")
    ELSE IF signal = "stop" THEN invoke("stop_monitoring")
    ELSE invoke("get_statistics")

startMonitoring ==
    /\ ~ButtonDisabled(isMonitoring)
    /\ Len(calls) < MaxCalls
    /\ isMonitoring' = TRUE
    /\ hasData' = TRUE
    /\ startInvoked' = TRUE
    /\ calls' = emit("start")
    /\ UNCHANGED <<statsVars, stoppedAt, pipeVars, displayVars>>

\* stopMonitoring that also resets hasData.
stopMonitoring_resets ==
    /\ ~ButtonDisabled(~isMonitoring)
    /\ Len(calls) < MaxCalls
    /\ isMonitoring' = FALSE
    /\ hasData' = FALSE
    /\ stoppedAt' = now
    /\ calls' = emit("stop")
    /\ UNCHANGED <<statsVars, startInvoked, pipeVars, displayVars>>

stopMonitoring ==
    /\ ~ButtonDisabled(~isMonitoring)
    /\ Len(calls) < MaxCalls
    /\ isMonitoring' = FALSE
    /\ stoppedAt' = now
    /\ calls' = emit("stop")
    /\ UNCHANGED <<statsVars, hasData, startInvoked, pipeVars, displayVars>>

\* showStatistics that also switches the monitoring flag off.
showStatistics_stops ==
    /\ Len(calls) < MaxCalls
    /\ isMonitoring' = FALSE
    /\ calls' = emit("show-stats")
    /\ UNCHANGED <<statsVars, hasData, stoppedAt, startInvoked, pipeVars, displayVars>>

showStatistics ==
    /\ ~ButtonDisabled(~hasData)
    /\ Len(calls) < MaxCalls
    /\ calls' = emit("show-stats")
    /\ UNCHANGED <<statsVars, panelVars, pipeVars, displayVars>>

\* ---------------------------------------------------------- MetricsDisplay

\* Math.random() returns draw / RandomSteps for a draw in RandomDraws.
RandomDraws == {0, RandomSteps \div 2, RandomSteps - 1}

\* temperature and measurementRate are kept as multiples of 1 / RandomSteps.
Whole(x) == x * RandomSteps

\* const metrics = ref({laserIntensity: 0, temperature: 25, measurementRate: 10, ...})
InitialMetrics(t) ==
    [laserIntensity |-> 0, temperature |-> Whole(25), measurementRate |-> Whole(10),
     timestamp |-> t]

\* Math.floor(Math.random() * 1000)
laserIntensityOf_wide(draw) == (draw * 1000) \div RandomSteps

\* Math.floor(Math.random() * 100)
laserIntensityOf(draw) == (draw * 100) \div RandomSteps

\* 25 + Math.random() * 10
temperatureOf(draw) == Whole(25) + draw * 10

\* 5 + Math.random() * 15
measurementRateOf(draw) == Whole(5) + draw * 15

updateMetrics(d1, d2, d3, t) ==
    [laserIntensity |-> laserIntensityOf(d1), temperature |-> temperatureOf(d2),
     measurementRate |-> measurementRateOf(d3), timestamp |-> t]

\* onMounted(() => { updateInterval = setInterval(updateMetrics, 1000) })
onMounted ==
    /\ lifecycle = "setup"
    /\ lifecycle' = "mounted"
    /\ updateInterval' = Cardinality(activeTimers) + 1
    /\ activeTimers' = activeTimers \cup {Cardinality(activeTimers) + 1}
    /\ UNCHANGED <<statsVars, panelVars, calls, pipeVars, metrics, now>>

\* onUnmounted without its clearInterval.
onUnmounted_noClear ==
    /\ lifecycle = "mounted"
    /\ lifecycle' = "unmounted"
    /\ UNCHANGED <<statsVars, panelVars, calls, pipeVars, updateInterval, activeTimers,
                   metrics, now>>

\* onUnmounted(() => { clearInterval(updateInterval) })
onUnmounted ==
    /\ lifecycle = "mounted"
    /\ lifecycle' = "unmounted"
    /\ activeTimers' = activeTimers \ {updateInterval}
    /\ UNCHANGED <<statsVars, panelVars, calls, pipeVars, updateInterval, metrics, now>>

\* An interval timer fires: updateMetrics runs.
tick ==
    /\ activeTimers # {}
    /\ now < MaxNow
    /\ now' = now + 1
    /\ \E d1 \in RandomDraws, d2 \in RandomDraws, d3 \in RandomDraws :
          metrics' = updateMetrics(d1, d2, d3, now + 1)
    /\ UNCHANGED <<statsVars, panelVars, calls, pipeVars, lifecycle, updateInterval,
                   activeTimers>>

\* -------------------------------------------------------------- statistics

\* Command get_statistics (calculate_statistics): count, average, min, max and
\* standard deviation of the distance over all accumulated readings. An average
\* and a variance are kept as fractions [num, den]; the standard deviation is
\* the square root of the variance.

\* distance_mm values of the readings the statistics are tried on.
SampleValues == {10, 20, 30}

RECURSIVE sumOf(_)
sumOf(readings) ==
    IF readings = <<>> THEN 0
    ELSE Head(readings).distance_mm + sumOf(Tail(readings))

RECURSIVE minOf(_)
minOf(readings) ==
    IF Len(readings) = 1 THEN readings[1].distance_mm
    ELSE LET rest == minOf(Tail(readings))
         IN  IF Head(readings).distance_mm < rest
             THEN Head(readings).distance_mm ELSE rest

\* maxOf that looks at the first two readings only.
maxOf_firstTwo(readings) ==
    IF Len(readings) = 1 \/ readings[1].distance_mm > readings[2].distance_mm
    THEN readings[1].distance_mm ELSE readings[2].distance_mm

RECURSIVE maxOf(_)
maxOf(readings) ==
    IF Len(readings) = 1 THEN readings[1].distance_mm
    ELSE LET rest == maxOf(Tail(readings))
         IN  IF Head(readings).distance_mm > rest
             THEN Head(readings).distance_mm ELSE rest

\* Second pass of the population variance: the squared deviations from the
\* mean sum / n, each times n * n.
RECURSIVE squaredDeviations(_, _, _)
squaredDeviations(readings, sum, n) ==
    IF readings = <<>> THEN 0
    ELSE (n * Head(readings).distance_mm - sum) * (n * Head(readings).distance_mm - sum)
         + squaredDeviations(Tail(readings), sum, n)

\* Statistics of no readings with zeros for the aggregates.
emptyStatistics_zeros ==
    [count |-> 0, mean |-> [num |-> 0, den |-> 1], min |-> 0, max |-> 0,
     variance |-> [num |-> 0, den |-> 1]]

\* Statistics of no readings: count 0 and no aggregate.
emptyStatistics ==
    [count |-> 0, mean |-> Undefined, min |-> Undefined, max |-> Undefined,
     variance |-> Undefined]

compute(readings) ==
    IF readings = <<>> THEN emptyStatistics
    ELSE LET n == Len(readings)
             sum == sumOf(readings)
         IN  [count |-> n,
              mean |-> [num |-> sum, den |-> n],
              min |-> minOf(readings),
              max |-> maxOf(readings),
              variance |-> [num |-> squaredDeviations(readings, sum, n),
                            den |-> n * n * n]]

\* A statistics request: computed afresh over the readings held at the call.
getStatistics ==
    /\ statistics = <<>>
    /\ statistics' = Append(statistics, compute(statsInput))
    /\ UNCHANGED <<statsInput, panelVars, calls, pipeVars, displayVars>>

\* ------------------------------------------------------- the specification

AppInit ==
    /\ isMonitoring = FALSE
    /\ hasData = FALSE
    /\ stoppedAt = 0
    /\ startInvoked = FALSE
    /\ calls = <<>>
    /\ sensorStore = [readings |-> <<>>, isMonitoring |-> FALSE]
    /\ listeners = 0
    /\ loopRunning = FALSE
    /\ generated = 0
    /\ channel = <<>>
    /\ pushed = <<>>
    /\ lifecycle = "setup"
    /\ updateInterval = 0
    /\ activeTimers = {}
    /\ metrics = InitialMetrics(0)
    /\ now = 0

Init ==
    /\ AppInit
    /\ statsInput = <<>>
    /\ statistics = <<>>

PanelNext == startMonitoring \/ stopMonitoring \/ showStatistics

CallNext == \E i \in 1..MaxCalls : handleCommand(i) \/ resumeCall(i)

PipeNext == setupEventListener \/ sensorLoop \/ onSensorData

DisplayNext == onMounted \/ onUnmounted \/ tick

\* The metrics display shares no state with the monitoring pipeline: the pipeline
\* (Spec) and the display beside the control panel (SpecDisplay) are explored apart.
Next == PanelNext \/ CallNext \/ PipeNext

Spec == Init /\ [][Next]_vars

\* The pipeline under fair scheduling: the backend's loop is a task of its own
\* that wakes every 100ms while it runs, the event system delivers every event
\* it holds, and a command sent is run and its promise resumed. Clicks and calls
\* of setupEventListener are the user's and the page's: nothing forces them.
Fairness ==
    /\ WF_vars(sensorLoop)
    /\ WF_vars(onSensorData)
    /\ WF_vars(CallNext)

SpecFair == Init /\ [][Next]_vars /\ Fairness

\* The panel and the display are children of one page: the panel is clicked once
\* the page, and so the display, has been mounted.
NextDisplay ==
    \/ lifecycle # "setup" /\ startMonitoring
    \/ lifecycle # "setup" /\ stopMonitoring
    \/ lifecycle # "setup" /\ showStatistics
    \/ CallNext
    \/ DisplayNext

SpecDisplay == Init /\ [][NextDisplay]_vars

\* The statistics are a function of the readings they are given: they are tried
\* on every sequence of up to MaxStatsLen readings over SampleValues.
StatsInputs ==
    UNION { { [i \in 1..n |-> [timestamp |-> i, distance_mm |-> f[i]]] :
                f \in [1..n -> SampleValues] } : n \in 0..MaxStatsLen }

InitStats ==
    /\ AppInit
    /\ statsInput \in StatsInputs
    /\ statistics = <<>>

NextStats == getStatistics

SpecStats == InitStats /\ [][NextStats]_vars

\* ------------------------------------------------------------------ claims

Min(a, b) == IF a < b THEN a ELSE b

LastN(s, n) == SubSeq(s, Len(s) - n + 1, Len(s))

\* A step of the stop operation: the panel's handler, the backend running the
\* stop_monitoring command, or the composable resuming after its await.
StopStep ==
    \/ stopMonitoring
    \/ \E i \in 1..Len(calls) :
          /\ calls[i].cmd = "stop_monitoring"
          /\ handleCommand(i) \/ resumeCall(i)

\* C1: after any sequence of addReading calls from the empty buffer, the buffer
\* holds at most Capacity readings whenever it can be observed.
C1_LengthAtMostCapacity == Len(sensorStore.readings) <= Capacity

\* The buffer is full and a reading has been evicted.
C1_Witness ==
    /\ Len(sensorStore.readings) = Capacity
    /\ Len(pushed) > Capacity

\* C2: the buffer holds exactly the last min(n, Capacity) of the n readings
\* pushed so far, oldest first.
C2_FifoEviction ==
    sensorStore.readings = LastN(pushed, Min(Len(pushed), Capacity))

\* Capacity + 1 readings were pushed and the first one is gone.
C2_Witness ==
    /\ Len(pushed) = Capacity + 1
    /\ sensorStore.readings = Tail(pushed)
    /\ sensorStore.readings[1] # pushed[1]

\* C3: monitoring is off initially; the panel's flag changes only in a step of
\* startMonitoring (to true) or stopMonitoring (to false), and the store's flag
\* only when the composable resumes after a successful start_monitoring (to
\* true) or stop_monitoring (to false).
C3_OnlyStartAndStopChangeMonitoring ==
    /\ ~isMonitoring
    /\ ~sensorStore.isMonitoring
    /\ [][ /\ (isMonitoring' # isMonitoring) => (startMonitoring \/ stopMonitoring)
           /\ startMonitoring => isMonitoring'
           /\ stopMonitoring => ~isMonitoring'
           /\ (sensorStore'.isMonitoring # sensorStore.isMonitoring) =>
                 \E i \in 1..Len(calls) :
                    /\ resumeCall(i)
                    /\ calls[i].phase = "ok"
                    /\ calls[i].cmd = IF sensorStore'.isMonitoring
                                      THEN "start_monitoring"
                                      ELSE "stop_monitoring" ]_vars

\* Monitoring was started and stopped again, in the panel and in the store, and
\* statistics were then requested.
C3_Witness ==
    /\ hasData
    /\ ~isMonitoring
    /\ ~sensorStore.isMonitoring
    /\ ~loopRunning
    /\ generated > 0
    /\ calls # <<>>
    /\ calls[1].cmd = "get_statistics"

\* C4 (as claimed): while monitoring is off after a stop, at most the one tick
\* in flight at the stop still generates a reading.
C4_AtMostOneTickAfterStop == (hasData /\ ~isMonitoring) => now <= stoppedAt + 1

\* C5 (as claimed): before the first start no tick has fired: the display still
\* shows its initial metrics.
C5_NoTickBeforeStart == ~hasData => (now = 0 /\ metrics = InitialMetrics(0))

\* C6 (as claimed): startMonitoring while already monitoring changes nothing.
C6_StartWhileRunningIsNoOp ==
    [][ (isMonitoring /\ startMonitoring) => UNCHANGED vars ]_vars

\* C7 (as claimed): stopMonitoring while not monitoring changes nothing.
C7_StopWhileStoppedIsNoOp ==
    [][ (~isMonitoring /\ stopMonitoring) => UNCHANGED vars ]_vars

\* C8: no step of the stop operation changes the history buffer.
C8_StopKeepsHistory ==
    [][ StopStep => sensorStore'.readings = sensorStore.readings ]_vars

\* Monitoring ran, readings arrived, and the stop has completed.
C8_Witness ==
    /\ sensorStore.readings # <<>>
    /\ hasData
    /\ ~isMonitoring
    /\ ~sensorStore.isMonitoring
    /\ ~loopRunning
    /\ calls = <<>>

C10_DocumentedRanges ==
    now > 0 =>
        /\ Whole(20) <= metrics.temperature /\ metrics.temperature <= Whole(25)
        /\ 500 <= metrics.laserIntensity /\ metrics.laserIntensity <= 2000

\* The timestamps of a sequence of readings never decrease along it.
NonDecreasing(rs) ==
    \A i \in 1..(Len(rs) - 1) : rs[i].timestamp <= rs[i + 1].timestamp

\* C11: in every reachable state the buffer's readings are in non-decreasing
\* timestamp order, also after evictions and with monitoring stopped.
C11_BufferInTimestampOrder == NonDecreasing(sensorStore.readings)

\* Readings were evicted, the buffer holds readings of different timestamps,
\* and monitoring has been stopped.
C11_Witness ==
    /\ Len(pushed) > Capacity
    /\ Len(sensorStore.readings) = Capacity
    /\ sensorStore.readings[1].timestamp < sensorStore.readings[Capacity].timestamp
    /\ hasData
    /\ ~isMonitoring
    /\ ~loopRunning

C14_EachReadingAddedOnce ==
    listeners >= 1 => Len(pushed) = generated - Len(channel)

\* C15: statistics over an empty history are returned, with count 0 and no
\* numeric aggregate.
C15_EmptyStatistics ==
    (statsInput = <<>> /\ statistics # <<>>) =>
        /\ statistics[1].count = 0
        /\ statistics[1].mean = Undefined
        /\ statistics[1].min = Undefined
        /\ statistics[1].max = Undefined
        /\ statistics[1].variance = Undefined

\* Statistics were requested over the empty history and returned.
C15_Witness == statsInput = <<>> /\ Len(statistics) = 1

DistanceAt(i) == statsInput[i].distance_mm

RECURSIVE TotalUpTo(_)
TotalUpTo(i) == IF i = 0 THEN 0 ELSE TotalUpTo(i - 1) + DistanceAt(i)

\* C16: statistics over a non-empty sequence have count = its length, min and
\* max = its extrema and mean = its arithmetic mean; over [10, 20, 30] they are
\* count 3, min 10, max 30, mean 20 and variance 200/3 (standard deviation
\* between 8.164 and 8.165).
C16_StatisticsOfReadings ==
    (statsInput # <<>> /\ statistics # <<>>) =>
        LET st == statistics[1]
            n == Len(statsInput)
        IN  /\ st.count = n
            /\ \E i \in 1..n : st.min = DistanceAt(i)
            /\ \A i \in 1..n : st.min <= DistanceAt(i)
            /\ \E i \in 1..n : st.max = DistanceAt(i)
            /\ \A i \in 1..n : st.max >= DistanceAt(i)
            /\ st.mean.num * n = TotalUpTo(n) * st.mean.den
            /\ (n = 3 /\ DistanceAt(1) = 10 /\ DistanceAt(2) = 20 /\ DistanceAt(3) = 30) =>
                  /\ st.count = 3 /\ st.min = 10 /\ st.max = 30
                  /\ st.mean.num = 20 * st.mean.den
                  /\ 3 * st.variance.num = 200 * st.variance.den
                  /\ 8164 * 8164 * st.variance.den <= st.variance.num * 1000000
                  /\ st.variance.num * 1000000 <= 8165 * 8165 * st.variance.den

\* Statistics were returned for the readings 10, 20, 30.
C16_Witness ==
    /\ Len(statsInput) = 3
    /\ DistanceAt(1) = 10 /\ DistanceAt(2) = 20 /\ DistanceAt(3) = 30
    /\ Len(statistics) = 1

\* C17: latestReading is the reading pushed last whenever one was pushed, also
\* after evictions, and undefined (no reading) while the buffer is empty.
C17_LatestIsLastPushed ==
    latestReading(sensorStore.readings) =
        IF pushed = <<>> THEN Undefined ELSE pushed[Len(pushed)]

\* Readings were evicted and the latest reading is not the oldest one held.
C17_Witness ==
    /\ Len(pushed) > Capacity
    /\ latestReading(sensorStore.readings) = pushed[Len(pushed)]
    /\ latestReading(sensorStore.readings) # sensorStore.readings[1]

\* C18 (as claimed): the panel emits 'start' only while not monitoring and
\* 'stop' only while monitoring.
C18_ButtonsGuardSignals ==
    [][ /\ startMonitoring => ~isMonitoring
        /\ stopMonitoring => isMonitoring ]_vars

C20_HasDataImpliesReadings == hasData => sensorStore.readings # <<>>

\* C21: in every reachable state of the control panel isMonitoring implies
\* hasData, and hasData is true exactly when startMonitoring has run at least
\* once; no step of start, stop or show-statistics sets hasData back to false.
C21_HasDataSinceFirstStart ==
    /\ isMonitoring => hasData
    /\ hasData <=> startInvoked
    /\ [][ hasData => hasData' ]_vars

\* Monitoring was started and stopped again and statistics were then requested:
\* hasData is still true with monitoring off.
C21_Witness ==
    /\ startInvoked
    /\ hasData
    /\ ~isMonitoring
    /\ calls = <<[cmd |-> "get_statistics", phase |-> "pending"]>>

\* C22: the display holds at most one active interval timer for its mount, the
\* unmount clears it, and once the component is unmounted no updateMetrics call
\* changes the metrics.
C22_OneTimerClearedAtUnmount ==
    /\ Cardinality(activeTimers) <= 1
    /\ lifecycle = "mounted" => activeTimers = {updateInterval}
    /\ lifecycle = "unmounted" => activeTimers = {}
    /\ [][ lifecycle = "unmounted" => metrics' = metrics ]_vars

\* The display was mounted, its timer fired, and it was unmounted while the
\* timer had ticks left to fire.
C22_Witness ==
    /\ lifecycle = "unmounted"
    /\ updateInterval # 0
    /\ now > 0
    /\ now < MaxNow
    /\ metrics # InitialMetrics(0)

\* The store and the backend agree that monitoring is running.
Running == sensorStore.isMonitoring /\ loopRunning

\* C23 (as claimed): under fair scheduling, once monitoring is running and
\* unless a stop is issued, a reading is eventually pushed and the history
\* buffer eventually reaches length Capacity, and stays at that length from
\* then on.
C23_RunningFillsBuffer ==
    /\ \A n \in {0, Capacity} :
          (Running /\ Len(pushed) = n) ~> (Len(pushed) > n \/ ~isMonitoring)
    /\ Running ~> (Len(sensorStore.readings) = Capacity \/ ~isMonitoring)
    /\ [][ Len(sensorStore.readings) = Capacity =>
              Len(sensorStore'.readings) = Capacity ]_vars

====
